---- MODULE Spec2Model ----
(***************************************************************************)
(* A model of the two workbook inspection scripts analyze_excel.py ("rich") *)
(* and analyze_excel_simple.py ("simple").  One run of a script is a state  *)
(* machine: argument check, load_workbook, one loop iteration per sheet,    *)
(* json.dumps + print.  The workbook file on disk is the input, fixed in    *)
(* Init.  The workbook library (openpyxl) is the environment: its objects   *)
(* are records holding the attributes the scripts read.                     *)
(*                                                                         *)
(* Python values: an optional value is a sequence of length at most one,    *)
(* None == <<>> and Some(x) == <<x>>.  A cell value is a record             *)
(* [kind, text]: its Python type and its str() rendering.  A dict is a      *)
(* record [keys, vals]: the keys in insertion order and the mapping.        *)
(***************************************************************************)
EXTENDS Integers, Sequences, FiniteSets, TLC

\* ------------------------------------------------------------------ bounds
\* Largest number of sheets of a workbook.
MaxSheets == 3
\* Largest max_row of a sheet (above both sample limits).
MaxRow == 21
\* Largest max_column of a sheet.
MaxCol == 2

\* ------------------------------------------------------- Python primitives
None == <<>>
Some(x) == <<x>>

Min(a, b) == IF a <= b THEN a ELSE b

\* range(a, b) as the sequence a, a+1, ..., b-1.
Range(a, b) == [k \in 1..(IF b > a THEN b - a ELSE 0) |-> a + k - 1]

PyNone == [kind |-> "NoneType", text |-> "None"]
PyStr(s) == [kind |-> "str", text |-> s]
PyInt0 == [kind |-> "int", text |-> "0"]
PyInt7 == [kind |-> "int", text |-> "7"]
PyFalse == [kind |-> "bool", text |-> "False"]
PyTrue == [kind |-> "bool", text |-> "True"]
PyDate == [kind |-> "datetime", text |-> "2024-01-01 00:00:00"]

\* bool(v) for a cell value: None, 0, False and "" are falsy.
Truthy(v) ==
    CASE v.kind = "NoneType" -> FALSE
      [] v.kind = "int" -> v.text # "0"
      [] v.kind = "bool" -> v.text = "True"
      [] v.kind = "str" -> v.text # ""
      [] OTHER -> TRUE

\* str(v)
Str(v) == PyStr(v.text)

\* ---------------------------------------------------- dict (insertion order)
EmptyDict == [keys |-> <<>>, vals |-> <<>>]

InKeys(d, k) == \E j \in 1..Len(d.keys) : d.keys[j] = k

\* A wrong d[k] = v: a new key is put in front of the others.
DictSetFront(d, k, v) ==
    [keys |-> IF InKeys(d, k) THEN d.keys ELSE <<k>> \o d.keys,
     vals |-> [j \in 1..(IF InKeys(d, k) THEN Len(d.keys) ELSE Len(d.keys) + 1) |->
                 IF InKeys(d, k)
                 THEN (IF d.keys[j] = k THEN v ELSE d.vals[j])
                 ELSE (IF j = 1 THEN v ELSE d.vals[j - 1])]]

\* d[k] = v: an existing key keeps its place, a new key goes last.
\* vals[j] is the value of keys[j].
DictSet(d, k, v) ==
    IF InKeys(d, k)
    THEN [keys |-> d.keys,
          vals |-> [j \in 1..Len(d.keys) |-> IF d.keys[j] = k THEN v ELSE d.vals[j]]]
    ELSE [keys |-> Append(d.keys, k), vals |-> Append(d.vals, v)]

\* ------------------------------------------------- openpyxl.utils functions
Alphabet == <<"A", "B", "C", "D", "E", "F", "G", "H", "I", "J", "K", "L", "M",
              "N", "O", "P", "Q", "R", "S", "T", "U", "V", "W", "X", "Y", "Z">>
Digits == <<"0", "1", "2", "3", "4", "5", "6", "7", "8", "9">>

IsLetter(ch) == \E j \in 1..26 : Alphabet[j] = ch
LetterValue(ch) == CHOOSE j \in 1..26 : Alphabet[j] = ch
DigitValue(ch) == (CHOOSE j \in 1..10 : Digits[j] = ch) - 1

\* get_column_letter(idx): bijective base 26, 1 -> "A", 26 -> "Z", 27 -> "AA".
RECURSIVE get_column_letter(_)
get_column_letter(idx) ==
    IF idx <= 0 THEN ""
    ELSE LET rem == IF idx % 26 = 0 THEN 26 ELSE idx % 26
         IN get_column_letter((idx - rem) \div 26) \o Alphabet[rem]

\* A wrong column_index_from_string: letters valued 0..25 instead of 1..26.
RECURSIVE column_index_zero_based(_)
column_index_zero_based(col) ==
    IF col = <<>> THEN 0
    ELSE 26 * column_index_zero_based(SubSeq(col, 1, Len(col) - 1))
         + LetterValue(col[Len(col)]) - 1

\* column_index_from_string(col): col is the sequence of the column's letters.
RECURSIVE column_index_from_string(_)
column_index_from_string(col) ==
    IF col = <<>> THEN 0
    ELSE 26 * column_index_from_string(SubSeq(col, 1, Len(col) - 1))
         + LetterValue(col[Len(col)])

RECURSIVE DecimalValue(_)
DecimalValue(ds) ==
    IF ds = <<>> THEN 0
    ELSE 10 * DecimalValue(SubSeq(ds, 1, Len(ds) - 1)) + DigitValue(ds[Len(ds)])

\* coordinate_from_string(coord): coord is the sequence of the characters of
\* a cell coordinate; the result is <<column letters, row number>>.
coordinate_from_string(coord) ==
    LET n == Cardinality({j \in 1..Len(coord) : IsLetter(coord[j])})
    IN <<SubSeq(coord, 1, n), DecimalValue(SubSeq(coord, n + 1, Len(coord)))>>

\* ------------------------------------------------------- workbook objects
\* A cell as the scripts read it: value, fill.patternType, fill.fgColor,
\* font.bold / italic / size / color.
DefaultFill == [patternType |-> None,
                fgColor |-> [type |-> Some("rgb"), rgb |-> Some("00000000")]]
DefaultFont == [bold |-> FALSE, italic |-> FALSE, size |-> Some(11), color |-> None]
\* font.color is None or Some(color), a color holding its rgb text.
MakeCell(v, fill, font) == [value |-> v, fill |-> fill, font |-> font]
DefaultCell == MakeCell(PyNone, DefaultFill, DefaultFont)

\* sheet.cell(row=r, column=c) and sheet["{letter}1"]
CellAt(sheet, r, c) == sheet.cells[r][c]

\* sheet.dimensions, for a sheet whose used range starts at A1.
Dimensions(sheet) ==
    "A1:" \o get_column_letter(sheet.max_column) \o ToString(sheet.max_row)

\* ------------------------------------------------------------ analyze_sheet
\* Frozen panes.  sheet.freeze_panes is None or Some(coordinate).
FrozenPanes(sheet) ==
    IF sheet.freeze_panes # None
    THEN LET cr == coordinate_from_string(sheet.freeze_panes[1])
             col_idx == column_index_from_string(cr[1])
         IN [frozen_cols |-> Some(col_idx - 1), frozen_rows |-> Some(cr[2] - 1)]
    ELSE [frozen_cols |-> None, frozen_rows |-> None]

\* The header of one column: the row-1 value when it is truthy, else the
\* fallback text.  The simple script renders the value with str().
Header(script, sheet, col_idx) ==
    LET v == CellAt(sheet, 1, col_idx).value
        col_letter == get_column_letter(col_idx)
    IN IF Truthy(v)
       THEN (IF script = "simple" THEN Str(v) ELSE v)
       ELSE PyStr("Column " \o col_letter)

\* for col_idx in range(1, sheet.max_column + 1): info["columns"].append(...)
Columns(script, sheet) ==
    LET idxs == Range(1, sheet.max_column + 1)
    IN [k \in 1..Len(idxs) |->
          [index |-> idxs[k], letter |-> get_column_letter(idxs[k]),
           header |-> Header(script, sheet, idxs[k])]]

\* Rich script: "for range_addr, dv in ...dataValidation" unpacks each rule
\* object into two names.  A rule object iterates as its (attribute, value)
\* pairs, never as a (range, rule) pair, so the first rule raises; an absent
\* data_validations raises AttributeError.  Nothing is caught here.
ValidationRich(sheet) ==
    IF sheet.data_validations = None
    THEN [err |-> Some("AttributeError"), list |-> <<>>]
    ELSE IF sheet.data_validations[1] = <<>>
         THEN [err |-> None, list |-> <<>>]
         ELSE [err |-> Some("ValueError"), list |-> <<>>]

\* Simple script: one entry per range of each rule, in order.  A rule whose
\* sqref cannot be iterated raises TypeError, which ends the loop; the
\* entries appended before it stay in the list.
RECURSIVE SimpleEntries(_, _)
SimpleEntries(rules, acc) ==
    IF rules = <<>> THEN acc
    ELSE LET coord == Head(rules)
         IN IF coord.sqref = None THEN acc
            ELSE SimpleEntries(Tail(rules),
                   acc \o [j \in 1..Len(coord.sqref[1]) |->
                             [range |-> coord.sqref[1][j], type |-> coord.type]])

\* try: ... except (AttributeError, TypeError): pass
ValidationSimple(sheet) ==
    IF sheet.data_validations = None
    THEN [err |-> None, list |-> <<>>]
    ELSE [err |-> None, list |-> SimpleEntries(sheet.data_validations[1], <<>>)]

Validation(script, sheet) ==
    IF script = "rich" THEN ValidationRich(sheet) ELSE ValidationSimple(sheet)

\* ------------------------------------------------------------- data sample
RichRangeStop == 11
SimpleRangeStop == 20
RangeStop(script) == IF script = "rich" THEN RichRangeStop ELSE SimpleRangeStop

\* A wrong row loop: one row more than the limit.
SampleRowsLong(script, sheet) ==
    Range(1, Min(RangeStop(script) + 1, sheet.max_row + 1))

\* range(1, min(11, sheet.max_row + 1)) / range(1, min(20, sheet.max_row + 1))
SampleRows(script, sheet) ==
    Range(1, Min(RangeStop(script), sheet.max_row + 1))

\* str(cell_value) if cell_value is not None else None
ValueText(v) == IF v.kind # "NoneType" THEN Some(v.text) ELSE None

\* cell_format of the rich script: a dict with the optional keys "fill",
\* "fill_color" and "font"; a key that is not set is None here, a key that is
\* set holds Some(value), the value itself possibly None.
CellFormat(cell) ==
    LET hasFill == cell.fill.patternType # Some("none")
        hasFont == cell.font.bold \/ cell.font.italic
                   \/ (cell.font.size # None /\ cell.font.size # Some(0))
    IN [fill |-> IF hasFill THEN Some(cell.fill.patternType) ELSE None,
        fill_color |->
            IF hasFill /\ cell.fill.fgColor.type # None
            THEN Some(IF cell.fill.fgColor.rgb # None
                      THEN cell.fill.fgColor.rgb[1] ELSE "default")
            ELSE None,
        font |-> IF hasFont
                 THEN Some([bold |-> cell.font.bold, italic |-> cell.font.italic,
                            size |-> cell.font.size,
                            color |-> IF cell.font.color # None
                                      THEN Some(cell.font.color[1].rgb) ELSE None])
                 ELSE None]

EmptyFormat == [fill |-> None, fill_color |-> None, font |-> None]

\* One sampled cell of the rich script.
RichCell(cell) ==
    [value |-> ValueText(cell.value),
     format |-> IF CellFormat(cell) # EmptyFormat THEN Some(CellFormat(cell)) ELSE None]

RichSample(sheet) ==
    LET rows == SampleRows("rich", sheet)
    IN [k \in 1..Len(rows) |->
          [c \in 1..sheet.max_column |-> RichCell(CellAt(sheet, rows[k], c))]]

\* One sampled row of the simple script: a dict keyed by column letter.
RECURSIVE SimpleRow(_, _, _)
SimpleRow(sheet, row_idx, upto) ==
    IF upto = 0 THEN EmptyDict
    ELSE DictSet(SimpleRow(sheet, row_idx, upto - 1), get_column_letter(upto),
                 ValueText(CellAt(sheet, row_idx, upto).value))

SimpleSample(sheet) ==
    LET rows == SampleRows("simple", sheet)
    IN [k \in 1..Len(rows) |-> SimpleRow(sheet, rows[k], sheet.max_column)]

\* The entry of one sheet: analyze_sheet, and for the rich script the
\* data_sample that analyze_excel adds to the returned dict in the same loop
\* iteration.  A chartsheet has no dimensions attribute, so building the
\* info dict raises; an error of the validation loop comes next.
analyze_sheet(script, sheet) ==
    IF sheet.kind # "worksheet"
    THEN [err |-> Some("AttributeError"), info |-> None]
    ELSE LET dv == Validation(script, sheet)
             fp == FrozenPanes(sheet)
             info == [name |-> sheet.title,
                      dimensions |-> Dimensions(sheet),
                      frozen_rows |-> fp.frozen_rows,
                      frozen_cols |-> fp.frozen_cols,
                      columns |-> Columns(script, sheet),
                      merged_cells |-> sheet.merged_cells,
                      data_validation |-> dv.list,
                      conditional_formatting |-> sheet.conditional_formatting,
                      row_count |-> sheet.max_row,
                      col_count |-> sheet.max_column,
                      data_sample |-> IF script = "rich" THEN RichSample(sheet)
                                      ELSE SimpleSample(sheet)]
         IN IF dv.err # None THEN [err |-> dv.err, info |-> None]
            ELSE [err |-> None, info |-> Some(info)]

\* ------------------------------------------------------------------ main
VARIABLES
    script,     \* "rich" (analyze_excel.py) or "simple" (analyze_excel_simple.py)
    argv,       \* sys.argv
    file,       \* the file on disk: [valid, sheets]
    pc,         \* "start", "loop" or "exited"
    loop_pos,   \* how many iterations of the sheet loop have completed
    result,     \* analyze_excel's result dict, None before load_workbook
    stdout,     \* lines printed to standard output
    stderr,     \* lines printed to standard error
    exit_code,  \* None while running, Some(status) once exited
    opened      \* load_workbook was called

vars == <<script, argv, file, pc, loop_pos, result, stdout, stderr, exit_code, opened>>

UsageLine(s) ==
    [kind |-> "usage",
     text |-> IF s = "rich" THEN "Usage: python analyze_excel.py <excel_file>"
              ELSE "Usage: python analyze_excel_simple.py <excel_file>",
     doc |-> None]

ErrorLine(e) == [prefix |-> "Error analyzing Excel file: ", message |-> e]

\* A wrong argument check: only a missing argument is refused.
ArgsAtLeast(args) == Len(args) >= 2

\* len(sys.argv) != 2 is the usage error.
ArgsOk(args) == Len(args) = 2

\* A wrong handler: the message goes to standard output.
OnExceptionStdout(out, err, e) ==
    [stdout |-> Append(out, [kind |-> "error", text |-> e, doc |-> None]),
     stderr |-> err, exit_code |-> Some(1)]

\* except Exception as e: print(..., file=sys.stderr); sys.exit(1)
OnException(out, err, e) ==
    [stdout |-> out, stderr |-> Append(err, ErrorLine(e)), exit_code |-> Some(1)]

Exit(h) ==
    /\ stdout' = h.stdout
    /\ stderr' = h.stderr
    /\ exit_code' = h.exit_code
    /\ pc' = "exited"

\* workbook.sheetnames
SheetNames(f) == [j \in 1..Len(f.sheets) |-> f.sheets[j].title]

\* workbook[sheet_name]
SheetByName(f, name) ==
    f.sheets[CHOOSE j \in 1..Len(f.sheets) : f.sheets[j].title = name]

\* json.dumps raises TypeError on a value that is no JSON type; of the values
\* a report can hold, only a header taken raw from a date cell is one.
Serializable(res) ==
    \A j \in 1..Len(res.sheets.keys) :
        \A k \in 1..Len(res.sheets.vals[j].columns) :
            res.sheets.vals[j].columns[k].header.kind # "datetime"

\* The JSON document: an object is the sequence of its <<key, value>> pairs
\* in the dict's insertion order.
JsonDoc(res) ==
    [filename |-> res.filename,
     sheet_names |-> res.sheet_names,
     sheets |-> [j \in 1..Len(res.sheets.keys) |->
                   <<res.sheets.keys[j], res.sheets.vals[j]>>]]

\* if len(sys.argv) != 2: print usage; sys.exit(1)
Usage ==
    /\ pc = "start"
    /\ ~ArgsOk(argv)
    /\ Exit([stdout |-> Append(stdout, UsageLine(script)), stderr |-> stderr,
             exit_code |-> Some(1)])
    /\ UNCHANGED <<script, argv, file, loop_pos, result, opened>>

\* analyze_excel up to the sheet loop: load_workbook and the result dict.
LoadWorkbook ==
    /\ pc = "start"
    /\ ArgsOk(argv)
    /\ opened' = TRUE
    /\ IF file.valid
       THEN /\ result' = Some([filename |-> argv[2],
                               sheet_names |-> SheetNames(file),
                               sheets |-> EmptyDict])
            /\ pc' = "loop"
            /\ UNCHANGED <<stdout, stderr, exit_code>>
       ELSE /\ Exit(OnException(stdout, stderr, "FileNotFoundError"))
            /\ UNCHANGED result
    /\ UNCHANGED <<script, argv, file, loop_pos>>

\* One iteration of "for sheet_name in workbook.sheetnames".
AnalyzeNextSheet ==
    /\ pc = "loop"
    /\ loop_pos < Len(result[1].sheet_names)
    /\ LET sheet_name == result[1].sheet_names[loop_pos + 1]
           r == analyze_sheet(script, SheetByName(file, sheet_name))
       IN IF r.err = None
          THEN /\ result' = Some([result[1] EXCEPT
                                    !.sheets = DictSet(@, sheet_name, r.info[1])])
               /\ loop_pos' = loop_pos + 1
               /\ UNCHANGED <<pc, stdout, stderr, exit_code>>
          ELSE /\ Exit(OnException(stdout, stderr, r.err[1]))
               /\ UNCHANGED <<result, loop_pos>>
    /\ UNCHANGED <<script, argv, file, opened>>

\* return result; print(json.dumps(result, indent=2))
PrintReport ==
    /\ pc = "loop"
    /\ loop_pos = Len(result[1].sheet_names)
    /\ IF Serializable(result[1])
       THEN Exit([stdout |-> Append(stdout, [kind |-> "json", text |-> "",
                                             doc |-> Some(JsonDoc(result[1]))]),
                  stderr |-> stderr, exit_code |-> Some(0)])
       ELSE Exit(OnException(stdout, stderr, "TypeError"))
    /\ UNCHANGED <<script, argv, file, loop_pos, result, opened>>

Next == Usage \/ LoadWorkbook \/ AnalyzeNextSheet \/ PrintReport

\* ------------------------------------------------------------------ inputs
Scripts == {"rich", "simple"}

\* The script name alone, one path, or a path and one more argument.
Argvs == {<<"prog">>, <<"prog", "book.xlsx">>, <<"prog", "book.xlsx", "extra">>}

PlainCell(r, c) == DefaultCell

\* A cell whose value is its own coordinate, "B7" at row 7 of column B.
MarkedCell(r, c) ==
    MakeCell(PyStr(get_column_letter(c) \o ToString(r)), DefaultFill, DefaultFont)

\* A sheet nrows x ncols of marked cells, or of empty cells.
MakeSheet(title, nrows, ncols, marked) ==
    [kind |-> "worksheet",
     title |-> title,
     max_row |-> nrows,
     max_column |-> ncols,
     freeze_panes |-> None,
     cells |-> [r \in 1..nrows |-> [c \in 1..ncols |->
                  IF marked THEN MarkedCell(r, c) ELSE PlainCell(r, c)]],
     merged_cells |-> <<>>,
     data_validations |-> Some(<<>>),
     conditional_formatting |-> FALSE]

OneSheet(sheet) == [valid |-> TRUE, sheets |-> <<sheet>>]

\* Sheet titles; a workbook's titles are distinct.
TitleList == <<"Data", "Summary", "Chart", "Notes", "Lists", "Totals">>
Titles == {TitleList[j] : j \in 1..MaxSheets}

TitleSeqs ==
    UNION {{t \in [1..n -> Titles] : \A a, b \in 1..n : a # b => t[a] # t[b]}
           : n \in 1..MaxSheets}

\* Sheets of the control-flow inputs: a plain worksheet, a chartsheet (it
\* has a title but none of a worksheet's attributes), a worksheet whose
\* header cell A1 holds a date.
ControlSheets(title) ==
    { MakeSheet(title, 1, 1, FALSE),
      [MakeSheet(title, 1, 1, FALSE) EXCEPT !.kind = "chartsheet"],
      [MakeSheet(title, 1, 1, FALSE) EXCEPT !.cells[1][1].value = PyDate] }

RECURSIVE SheetSeqs(_, _)
SheetSeqs(titles, n) ==
    IF n = 0 THEN {<<>>}
    ELSE {Append(ss, sh) : ss \in SheetSeqs(titles, n - 1),
                           sh \in ControlSheets(titles[n])}

\* A missing or corrupt file, and workbooks of 1..MaxSheets sheets.
ControlFiles ==
    {[valid |-> FALSE, sheets |-> <<>>]}
    \cup {[valid |-> TRUE, sheets |-> ss] :
             ss \in UNION {SheetSeqs(t, Len(t)) : t \in TitleSeqs}}

\* One sheet of every size up to MaxRow x MaxCol, cells marked by position.
RowFiles ==
    {OneSheet(MakeSheet("Data", nr, nc, TRUE)) : nr \in 1..MaxRow, nc \in 1..MaxCol}

\* Freeze coordinates with the column and row index each one denotes.
FreezeCases ==
    { [text |-> <<"A", "1">>, c |-> 1, r |-> 1],
      [text |-> <<"B", "2">>, c |-> 2, r |-> 2],
      [text |-> <<"A", "3">>, c |-> 1, r |-> 3],
      [text |-> <<"C", "1">>, c |-> 3, r |-> 1],
      [text |-> <<"Z", "1", "0">>, c |-> 26, r |-> 10],
      [text |-> <<"A", "A", "1", "2">>, c |-> 27, r |-> 12],
      [text |-> <<"B", "C", "2", "0", "5">>, c |-> 55, r |-> 205] }

FreezeFiles ==
    {OneSheet([MakeSheet("Data", 2, nc, TRUE) EXCEPT !.freeze_panes = fp]) :
        fp \in {None} \cup {Some(fc.text) : fc \in FreezeCases}, nc \in 1..MaxCol}

\* Row-1 values of every type a cell can hold.
HeaderValues == {PyNone, PyInt0, PyInt7, PyFalse, PyTrue, PyStr("Name"), PyDate}

HeaderFiles ==
    UNION {{OneSheet([MakeSheet("Data", 2, nc, TRUE) EXCEPT
                        !.cells[1] = [c \in 1..nc |-> MakeCell(h[c], DefaultFill, DefaultFont)]])
            : h \in [1..nc -> HeaderValues]} : nc \in 1..MaxCol}

\* Data-validation rules: two well-formed ones and one whose sqref is unset.
ListRule == [sqref |-> Some(<<"A1:A5">>), type |-> Some("list")]
WholeRule == [sqref |-> Some(<<"B1", "C2:C4">>), type |-> Some("whole")]
BrokenRule == [sqref |-> None, type |-> Some("list")]
Rules == {ListRule, WholeRule, BrokenRule}

RuleSeqs == {<<>>} \cup {<<a>> : a \in Rules} \cup {<<a, b>> : a \in Rules, b \in Rules}

ValidationFiles ==
    {OneSheet([MakeSheet("Data", 2, 2, TRUE) EXCEPT
                 !.data_validations = dv, !.merged_cells = mc,
                 !.conditional_formatting = cf]) :
        dv \in {None} \cup {Some(rs) : rs \in RuleSeqs},
        mc \in {<<>>, <<"B2:C3">>},
        cf \in BOOLEAN}

\* Cell styles: every combination of fill and font attributes.
Fills ==
    {[patternType |-> pt, fgColor |-> fg] :
        pt \in {None, Some("solid")},
        fg \in {[type |-> Some("rgb"), rgb |-> Some("00000000")],
                [type |-> Some("rgb"), rgb |-> Some("FFFFFF00")],
                [type |-> Some("theme"), rgb |-> None]}}

Fonts ==
    {[bold |-> b, italic |-> i, size |-> sz, color |-> col] :
        b \in BOOLEAN, i \in BOOLEAN,
        sz \in {None, Some(11), Some(14)},
        col \in {None, Some([rgb |-> "FFFF0000"])}}

StyleFiles ==
    {OneSheet([MakeSheet("Data", 1, 1, TRUE) EXCEPT
                 !.cells[1][1] = MakeCell(PyStr("x"), fill, font)]) :
        fill \in Fills, font \in Fonts}

Files == ControlFiles \cup RowFiles \cup FreezeFiles \cup HeaderFiles
         \cup ValidationFiles \cup StyleFiles

Init ==
    /\ script \in Scripts
    /\ argv \in Argvs
    /\ file \in Files
    /\ pc = "start"
    /\ loop_pos = 0
    /\ result = None
    /\ stdout = <<>>
    /\ stderr = <<>>
    /\ exit_code = None
    /\ opened = FALSE

Spec == Init /\ [][Next]_vars

\* ------------------------------------------------------------ properties
\* Positions of the sheets analysed so far, the report entry of each and
\* the worksheet it was made from.
Analysed == IF result = None THEN {} ELSE 1..Len(result[1].sheets.keys)
InfoAt(j) == result[1].sheets.vals[j]
InputAt(j) == SheetByName(file, result[1].sheets.keys[j])

\* The number of cells of one sampled row (a list, or a dict by letter).
RowWidth(row) == IF script = "rich" THEN Len(row) ELSE Len(row.keys)
\* The value text of the cell in column c of a sampled row.
RowValue(row, c) == IF script = "rich" THEN row[c].value ELSE row.vals[c]

\* The sample caps the documentation states for the two scripts.
StatedCap == IF script = "rich" THEN 10 ELSE 20

\* C1: a run whose command line does not carry exactly one argument never
\* calls load_workbook and builds no report; once it has exited, standard
\* output holds the usage line alone, the status is 1 and no JSON was
\* printed.
ThC1_UsageError ==
    Len(argv) # 2 =>
        /\ ~opened
        /\ result = None
        /\ stderr = <<>>
        /\ \A k \in 1..Len(stdout) : stdout[k].kind = "usage"
        /\ pc = "exited" => /\ stdout = <<UsageLine(script)>>
                            /\ exit_code = Some(1)

WitC1_UsageError ==
    /\ pc = "exited"
    /\ Len(argv) = 3
    /\ script = "simple"
    /\ stdout = <<UsageLine("simple")>>

\* Inputs whose inspection must fail: a missing or corrupt file, a workbook
\* holding a chartsheet, and (rich script) a date in a header cell, which the
\* report carries raw and json.dumps refuses.
InputFails ==
    \/ ~file.valid
    \/ \E j \in 1..Len(file.sheets) : file.sheets[j].kind = "chartsheet"
    \/ /\ script = "rich"
       /\ \E j \in 1..Len(file.sheets) :
              \E c \in 1..file.sheets[j].max_column :
                  file.sheets[j].cells[1][c].value = PyDate

\* C2: with exactly one argument, nothing is printed before the run ends; a
\* run that ends with status 1 has printed one "Error analyzing Excel file: "
\* line on standard error and nothing on standard output, whichever step
\* failed; a failing input always ends so; only a run that analysed every
\* sheet prints the JSON report and ends with status 0.
ThC2_FailureEmitsNothing ==
    Len(argv) = 2 =>
        /\ pc # "exited" => stdout = <<>> /\ stderr = <<>> /\ exit_code = None
        /\ pc = "exited" =>
             /\ exit_code \in {Some(0), Some(1)}
             /\ exit_code = Some(1) =>
                  /\ stdout = <<>>
                  /\ Len(stderr) = 1
                  /\ stderr[1].prefix = "Error analyzing Excel file: "
             /\ exit_code = Some(0) =>
                  /\ stderr = <<>>
                  /\ Len(stdout) = 1
                  /\ stdout[1].kind = "json"
                  /\ file.valid
                  /\ loop_pos = Len(file.sheets)
                  /\ Len(result[1].sheets.keys) = Len(file.sheets)
             /\ InputFails => exit_code = Some(1)

\* A failure while analysing a sheet after the first: some sheets are in the
\* result dict already, the run ended with status 1.
WitC2_FailureAfterFirstSheet ==
    /\ pc = "exited"
    /\ Len(argv) = 2
    /\ exit_code = Some(1)
    /\ loop_pos >= 1
    /\ loop_pos < Len(file.sheets)
    /\ Len(result[1].sheets.keys) >= 1

\* C3: in every sheet entry of the report, data_sample has at most
\* min(cap, row_count) rows, cap being 10 (rich) or 20 (simple), and every
\* sampled row has at most col_count cells.
ThC3_SampleWithinLimits ==
    \A j \in Analysed :
        /\ Len(InfoAt(j).data_sample) <= Min(StatedCap, InfoAt(j).row_count)
        /\ \A k \in 1..Len(InfoAt(j).data_sample) :
               RowWidth(InfoAt(j).data_sample[k]) <= InfoAt(j).col_count

\* A sheet with more rows than the cap, sampled by the rich script.
WitC3_SampleWithinLimits ==
    \E j \in Analysed :
        /\ script = "rich"
        /\ InfoAt(j).row_count > 10
        /\ Len(InfoAt(j).data_sample) = 10
        /\ InfoAt(j).col_count = 2
        /\ RowWidth(InfoAt(j).data_sample[10]) = 2

\* C4: for every analysed sheet, a freeze coordinate of column index c and
\* row index r gives frozen_cols = c - 1 and frozen_rows = r - 1, no freeze
\* coordinate leaves both unset, and the two fields are set or unset
\* together.
ThC4_FrozenPanes ==
    \A j \in Analysed :
        /\ InputAt(j).freeze_panes = None =>
              InfoAt(j).frozen_cols = None /\ InfoAt(j).frozen_rows = None
        /\ InputAt(j).freeze_panes # None =>
              \E fc \in FreezeCases :
                  /\ InputAt(j).freeze_panes = Some(fc.text)
                  /\ InfoAt(j).frozen_cols = Some(fc.c - 1)
                  /\ InfoAt(j).frozen_rows = Some(fc.r - 1)
        /\ (InfoAt(j).frozen_cols = None) <=> (InfoAt(j).frozen_rows = None)

\* Freeze panes at "AA12": 26 frozen columns, 11 frozen rows.
WitC4_FrozenPanes ==
    \E j \in Analysed :
        /\ InputAt(j).freeze_panes = Some(<<"A", "A", "1", "2">>)
        /\ InfoAt(j).frozen_cols = Some(26)
        /\ InfoAt(j).frozen_rows = Some(11)

\* C5: for every analysed sheet, columns has one entry per column index
\* 1..max_column in ascending order, whose header is the row-1 value of the
\* column whenever that cell is not empty (0 and False included) and is
\* "Column {letter}" exactly when it is empty.  Headers are compared as
\* text, so the simple script's str() rendering is not held against it.
CexC5_HeaderOfNonEmptyCell ==
    \A j \in Analysed :
        /\ Len(InfoAt(j).columns) = InputAt(j).max_column
        /\ \A c \in 1..Len(InfoAt(j).columns) :
               LET v == InputAt(j).cells[1][c].value
                   col == InfoAt(j).columns[c]
               IN /\ col.index = c
                  /\ col.letter = get_column_letter(c)
                  /\ v # PyNone => col.header.text = v.text
                  /\ v = PyNone => col.header = PyStr("Column " \o col.letter)

\* C6: in every emitted report, the keys of sheets, in order, are the
\* sequence sheet_names.
ThC6_SheetNamesMatchKeys ==
    \A k \in 1..Len(stdout) :
        stdout[k].kind = "json" =>
            LET doc == stdout[k].doc[1]
            IN /\ Len(doc.sheets) = Len(doc.sheet_names)
               /\ \A j \in 1..Len(doc.sheets) : doc.sheets[j][1] = doc.sheet_names[j]
               /\ doc.sheet_names = SheetNames(file)

\* An emitted report of a workbook of three sheets whose names are not in
\* alphabetical order.
WitC6_SheetNamesMatchKeys ==
    /\ pc = "exited"
    /\ exit_code = Some(0)
    /\ Len(stdout) = 1
    /\ stdout[1].kind = "json"
    /\ stdout[1].doc[1].sheet_names = <<"Summary", "Chart", "Data">>

\* The input is a valid workbook of worksheets without date headers.
PlainWorkbook ==
    /\ file.valid
    /\ \A j \in 1..Len(file.sheets) :
          /\ file.sheets[j].kind = "worksheet"
          /\ \A c \in 1..file.sheets[j].max_column :
                 file.sheets[j].cells[1][c].value # PyDate

WellFormed(rule) == rule.sqref # None /\ rule.sqref # Some(<<>>) /\ rule.type # None

\* C7: a sheet declaring n >= 1 well-formed validation rules is inspected
\* without error, and its data_validation list holds, for every rule, an
\* entry with a target range and the type of that rule.
CexC7_ValidationRulesReported ==
    ( /\ pc = "exited"
      /\ Len(argv) = 2
      /\ PlainWorkbook
      /\ \A j \in 1..Len(file.sheets) :
             /\ file.sheets[j].data_validations # None
             /\ Len(file.sheets[j].data_validations[1]) >= 1
             /\ \A n \in 1..Len(file.sheets[j].data_validations[1]) :
                    WellFormed(file.sheets[j].data_validations[1][n]) )
    => /\ exit_code = Some(0)
       /\ \A j \in Analysed :
              \A n \in 1..Len(InputAt(j).data_validations[1]) :
                  LET rule == InputAt(j).data_validations[1][n]
                  IN \E e \in 1..Len(InfoAt(j).data_validation) :
                         /\ InfoAt(j).data_validation[e].type = rule.type
                         /\ \E q \in 1..Len(rule.sqref[1]) :
                                InfoAt(j).data_validation[e].range = rule.sqref[1][q]

\* The validation metadata of a sheet is absent or malformed.
BadValidation(sheet) ==
    \/ sheet.data_validations = None
    \/ \E n \in 1..Len(sheet.data_validations[1]) :
           ~WellFormed(sheet.data_validations[1][n])

\* C8: when the validation metadata of a sheet is absent or malformed, the
\* inspection still succeeds and that sheet's data_validation is the empty
\* list.
CexC8_BadValidationGivesEmptyList ==
    ( /\ pc = "exited"
      /\ Len(argv) = 2
      /\ PlainWorkbook
      /\ \A j \in 1..Len(file.sheets) : BadValidation(file.sheets[j]) )
    => /\ exit_code = Some(0)
       /\ \A j \in Analysed : InfoAt(j).data_validation = <<>>

\* C9: in the rich script, a sampled cell whose fill pattern is unset and
\* whose font is not bold, not italic and of the default size has no format
\* descriptor.
CexC9_DefaultCellHasNoFormat ==
    script = "rich" =>
        \A j \in Analysed :
            \A k \in 1..Len(InfoAt(j).data_sample) :
                \A c \in 1..InputAt(j).max_column :
                    LET cell == InputAt(j).cells[k][c]
                    IN ( /\ cell.fill.patternType = None
                         /\ ~cell.font.bold
                         /\ ~cell.font.italic
                         /\ cell.font.size = DefaultFont.size )
                       => InfoAt(j).data_sample[k][c].format = None

\* C10: for every analysed sheet, data_sample has exactly min(cap, row_count)
\* rows, cap being 10 (rich) or 20 (simple); they are rows 1, 2, ... of the
\* sheet in order, each with exactly col_count cells.
CexC10_SampleExact ==
    \A j \in Analysed :
        /\ Len(InfoAt(j).data_sample) = Min(StatedCap, InfoAt(j).row_count)
        /\ \A k \in 1..Len(InfoAt(j).data_sample) :
               /\ RowWidth(InfoAt(j).data_sample[k]) = InfoAt(j).col_count
               /\ \A c \in 1..InfoAt(j).col_count :
                      RowValue(InfoAt(j).data_sample[k], c)
                          = ValueText(InputAt(j).cells[k][c].value)

====
